---- MODULE Spec2Model ----
(***************************************************************************)
(* Debug sample history of apiserver/bll/event/debug_sample_history.py:    *)
(* the variant range resolver, the two-phase navigation and the cursor     *)
(* state cache it runs on.                                                 *)
(*                                                                         *)
(* Variant names are modelled by their rank in lexicographic order, so     *)
(* that the order Elasticsearch sorts keyword fields by is the order < of  *)
(* the model: variant 1 is the name that sorts first.                      *)
(***************************************************************************)
EXTENDS Integers, Sequences, FiniteSets, TLC

\* ------------------------------------------------------------------ bounds
MaxVariant == 3
MaxIter == 2
MaxUrl == 2
MaxDocs == 3

\* ------------------------------------------------------- python's None
NoVariant == 0
NoIteration == -1
NoUrl == 0
NoId == 0
None == "None"

Variants == 1..MaxVariant
Iters == 0..MaxIter
Urls == 1..MaxUrl
Tasks == {"T1", "T2"}
Metrics == {"M1", "M2"}

\* ------------------------------------------------------------ documents
\* An indexed debug image event, reduced to the fields the queries read.
\* url = NoUrl is a document without the url field.
Doc(t, m, v, i, u) == [task |-> t, metric |-> m, variant |-> v, iter |-> i, url |-> u]

NoDoc == Doc("", "", NoVariant, NoIteration, NoUrl)

\* {"exists": {"field": "url"}}
exists_url(d) == d.url # NoUrl

\* mutant: the index is never found empty
check_empty_data_never(evts) == FALSE

\* check_empty_data: the index holds no document for the company and event type
check_empty_data(evts) == evts = {}

\* "size": 1 with a sort: the first hit in sort order, None when there is none
first_hit(hits, before) ==
    IF hits = {} THEN NoDoc
    ELSE CHOOSE d \in hits : \A e \in hits : <<e, d>> \notin before

\* ------------------------------------------------------- classes of state
VariantState(name, min_iter, max_iter) ==
    [name |-> name, min_iteration |-> min_iter, max_iteration |-> max_iter]

DebugSampleHistoryState(id) ==
    [id |-> id, iteration |-> NoIteration, variant |-> NoVariant,
     task |-> None, metric |-> None,
     reached_first |-> None, reached_last |-> None,
     variant_states |-> << >>, warning |-> None]

DebugSampleHistoryResult(scroll_id) ==
    [scroll_id |-> scroll_id, event |-> NoDoc,
     min_iteration |-> NoIteration, max_iteration |-> NoIteration]

\* mutant: the first VariantState whatever its name
first_var_state_any_name(variant_states, variant) ==
    IF Len(variant_states) = 0 THEN {} ELSE {variant_states[1]}

\* boltons first(s for s in state.variant_states if s.name == variant):
\* the set holding the first matching VariantState, empty when there is none
first_var_state(variant_states, variant) ==
    LET idx == {k \in 1..Len(variant_states) : variant_states[k].name = variant}
    IN  IF idx = {} THEN {}
        ELSE {variant_states[CHOOSE k \in idx : \A j \in idx : k <= j]}

\* ---------------------------------------------------- range resolution
SetMax(S) == CHOOSE x \in S : \A y \in S : y <= x
SetMin(S) == CHOOSE x \in S : \A y \in S : x <= y

\* mutant: the buckets ordered by _key descending
RECURSIVE keys_desc(_)
keys_desc(S) ==
    IF S = {} THEN << >>
    ELSE LET k == SetMax(S) IN <<k>> \o keys_desc(S \ {k})

\* the buckets of a terms aggregation ordered by _key ascending, as a sequence
RECURSIVE keys_asc(_)
keys_asc(S) ==
    IF S = {} THEN << >>
    ELSE LET k == SetMin(S) IN <<k>> \o keys_asc(S \ {k})

\* "size" of the variants aggregation (EventSettings.max_variants_count)
max_variants_count == 100

Take(s, n) == IF Len(s) <= n THEN s ELSE SubSeq(s, 1, n)

\* mutant: the urls ordered by max_iter descending
urls_last_max_iter(docs) ==
    SetMax({SetMax({d.iter : d \in {e \in docs : e.url = u}}) :
            u \in {d.url : d \in docs}})

\* aggregation "urls": terms on url ordered by max_iter ascending, size 1;
\* the value is max_iter of that first bucket
urls_first_max_iter(docs) ==
    SetMin({SetMax({d.iter : d \in {e \in docs : e.url = u}}) :
            u \in {d.url : d \in docs}})

\* mutant: the lowest iteration of the variant as min_iter
get_variant_data_lowest(docs, variant) ==
    LET bucket == {d \in docs : d.variant = variant}
    IN  VariantState(variant, SetMin({d.iter : d \in bucket}),
                     SetMax({d.iter : d \in bucket}))

\* mutant: min_iter and max_iter returned in each other's place
get_variant_data_swapped(docs, variant) ==
    LET bucket == {d \in docs : d.variant = variant}
        min_iter == urls_first_max_iter(bucket)
        max_iter == SetMax({d.iter : d \in bucket})
    IN  VariantState(variant, max_iter, min_iter)

get_variant_data(docs, variant) ==
    LET bucket == {d \in docs : d.variant = variant}
        min_iter == urls_first_max_iter(bucket)
        max_iter == SetMax({d.iter : d \in bucket})
    IN  VariantState(variant, min_iter, max_iter)

_get_variant_iterations(evts, task, metric) ==
    LET docs == {d \in evts : d.task = task /\ d.metric = metric /\ exists_url(d)}
        buckets == Take(keys_asc({d.variant : d \in docs}), max_variants_count)
    IN  [k \in 1..Len(buckets) |-> get_variant_data(docs, buckets[k])]

_reset_variant_states(state, evts) ==
    [state EXCEPT !.variant_states = _get_variant_iterations(evts, state.task, state.metric)]

\* ------------------------------------------------------------ navigation
\* mutant: the bounds are looked up under the variant the state held before
_fill_res_and_update_state_old_variant(image, res, state) ==
    LET state1 == [state EXCEPT !.variant = image.variant, !.iteration = image.iter]
        var_state == first_var_state(state.variant_states, state.variant)
        res1 == [res EXCEPT !.event = image]
    IN  [state |-> state1,
         res |-> IF var_state = {} THEN res1
                 ELSE LET s == CHOOSE s \in var_state : TRUE
                      IN  [res1 EXCEPT !.min_iteration = s.min_iteration,
                                       !.max_iteration = s.max_iteration]]

\* _fill_res_and_update_state: [res, state] after selecting image
_fill_res_and_update_state(image, res, state) ==
    LET state1 == [state EXCEPT !.variant = image.variant, !.iteration = image.iter]
        var_state == first_var_state(state1.variant_states, state1.variant)
        res1 == [res EXCEPT !.event = image]
    IN  [state |-> state1,
         res |-> IF var_state = {} THEN res1
                 ELSE LET s == CHOOSE s \in var_state : TRUE
                      IN  [res1 EXCEPT !.min_iteration = s.min_iteration,
                                       !.max_iteration = s.max_iteration]]

\* mutant: le and ge in place of lt and gt
cmp_or_equal(navigate_earlier, a, b) == IF navigate_earlier THEN a <= b ELSE a >= b

\* operator.lt if navigate_earlier else operator.gt
cmp(navigate_earlier, a, b) == IF navigate_earlier THEN a < b ELSE a > b

\* cmp(var_state.name, state.variant) compares a str with None when the state
\* holds no variant and variant_states is not empty: python raises TypeError
cmp_raises(state) == state.variant = NoVariant /\ Len(state.variant_states) > 0

\* mutant: "lte" and "gte" for "lt" and "gt"
iter_range_inclusive(navigate_earlier, iter, iteration) ==
    IF navigate_earlier THEN iter <= iteration ELSE iter >= iteration

\* {"range": {"iter": {range_operator: state.iteration}}}
iter_range(navigate_earlier, iter, iteration) == cmp(navigate_earlier, iter, iteration)

\* mutant: the lower bound of the variant's window left out
iter_gte_dropped(iter, min_iteration) == TRUE

\* {"range": {"iter": {"gte": v.min_iteration}}}
iter_gte(iter, min_iteration) == iter >= min_iteration

\* mutant: the order is "asc" in both directions
sorts_before_ascending(navigate_earlier, a, b) == a < b

\* a sorts before b under "desc" (navigate_earlier) or "asc"
sorts_before(navigate_earlier, a, b) == IF navigate_earlier THEN a > b ELSE a < b

\* mutant: the sort directions swapped
variant_order_swapped(navigate_earlier, d, e) ==
    sorts_before(~navigate_earlier, d.variant, e.variant)

\* "sort": {"variant": "desc" if navigate_earlier else "asc"}
variant_order(navigate_earlier, d, e) == sorts_before(navigate_earlier, d.variant, e.variant)

\* mutant: the variant sorted against the iteration's direction
iter_variant_order_mixed(navigate_earlier, d, e) ==
    \/ sorts_before(navigate_earlier, d.iter, e.iter)
    \/ d.iter = e.iter /\ sorts_before(~navigate_earlier, d.variant, e.variant)

\* "sort": [{"iter": order}, {"variant": order}]
iter_variant_order(navigate_earlier, d, e) ==
    \/ sorts_before(navigate_earlier, d.iter, e.iter)
    \/ d.iter = e.iter /\ sorts_before(navigate_earlier, d.variant, e.variant)

_get_next_for_current_iteration(state, navigate_earlier, evts) ==
    LET vs == state.variant_states
        variants == {k \in 1..Len(vs) :
                        /\ cmp(navigate_earlier, vs[k].name, state.variant)
                        /\ vs[k].min_iteration <= state.iteration}
        hits == {d \in evts :
                    /\ d.task = state.task
                    /\ d.metric = state.metric
                    /\ d.variant \in {vs[k].name : k \in variants}
                    /\ d.iter = state.iteration
                    /\ exists_url(d)}
        before == {x \in hits \X hits : variant_order(navigate_earlier, x[1], x[2])}
    IN  IF variants = {} THEN NoDoc ELSE first_hit(hits, before)

_get_next_for_another_iteration(state, navigate_earlier, evts) ==
    LET vs == state.variant_states
        variants == IF navigate_earlier
                    THEN {k \in 1..Len(vs) : vs[k].min_iteration < state.iteration}
                    ELSE 1..Len(vs)
        hits == {d \in evts :
                    /\ d.task = state.task
                    /\ d.metric = state.metric
                    /\ exists_url(d)
                    /\ \E k \in variants :
                          d.variant = vs[k].name /\ iter_gte(d.iter, vs[k].min_iteration)
                    /\ iter_range(navigate_earlier, d.iter, state.iteration)}
        before == {x \in hits \X hits : iter_variant_order(navigate_earlier, x[1], x[2])}
    IN  IF variants = {} THEN NoDoc ELSE first_hit(hits, before)

\* the queries either phase sends to the search backend (none when its
\* candidate list is empty)
current_iteration_queries(state, navigate_earlier) ==
    \E k \in 1..Len(state.variant_states) :
        /\ cmp(navigate_earlier, state.variant_states[k].name, state.variant)
        /\ state.variant_states[k].min_iteration <= state.iteration

another_iteration_queries(state, navigate_earlier) ==
    IF navigate_earlier
    THEN \E k \in 1..Len(state.variant_states) :
            state.variant_states[k].min_iteration < state.iteration
    ELSE Len(state.variant_states) > 0

\* mutant: the search backend's exception is not raised again
translate_errors_context_swallowed(e) ==
    CASE e = "ElasticsearchException" -> None
      [] e = "PyMongoError" -> "InternalError"
      [] e = "NotMasterError" -> "InternalError"
      [] OTHER -> e

\* translate_errors_context: the api error raised for an exception of the
\* block; any other exception is raised again as it is
translate_errors_context(e) ==
    CASE e = "ElasticsearchException" -> "DataError"
      [] e = "PyMongoError" -> "InternalError"
      [] e = "NotMasterError" -> "InternalError"
      [] OTHER -> e

\* mutant: set_state is called whenever the handler returns
Outcome_saved_on_return(res, raised, save, state) ==
    [res |-> res, raised |-> raised, save |-> (raised = None /\ state.id # NoId),
     state |-> state]

\* The outcome of a handler: what it returns or raises, and the state it
\* hands to set_state when it saves.
Outcome(res, raised, save, state) ==
    [res |-> res, raised |-> raised, save |-> save, state |-> state]

\* mutant: the task of the state is not compared
invalid_scroll_id_any_task(state, task) == state.id = NoId

\* not state or state.task != task
invalid_scroll_id(state, task) == state.id = NoId \/ state.task # task

\* get_next_debug_image on the state read from the cache (NoState: no entry).
\* es_ok = FALSE: the search backend fails the first navigation query sent.
get_next_debug_image(state, task, state_id, navigate_earlier, evts, es_ok) ==
    LET res == DebugSampleHistoryResult(state_id)
        image1 == _get_next_for_current_iteration(state, navigate_earlier, evts)
        image == IF image1 # NoDoc THEN image1
                 ELSE _get_next_for_another_iteration(state, navigate_earlier, evts)
        filled == _fill_res_and_update_state(image, res, state)
    IN  IF invalid_scroll_id(state, task)
        THEN Outcome(res, "InvalidScrollId", FALSE, state)
        ELSE IF check_empty_data(evts)
        THEN Outcome(res, None, FALSE, state)
        ELSE IF cmp_raises(state)
        THEN Outcome(res, "TypeError", FALSE, state)
        ELSE IF ~es_ok /\ current_iteration_queries(state, navigate_earlier)
        THEN Outcome(res, translate_errors_context("ElasticsearchException"), FALSE, state)
        ELSE IF ~es_ok /\ image1 = NoDoc /\ another_iteration_queries(state, navigate_earlier)
        THEN Outcome(res, translate_errors_context("ElasticsearchException"), FALSE, state)
        ELSE IF image = NoDoc
        THEN Outcome(res, None, FALSE, state)
        ELSE Outcome(filled.res, None, TRUE, filled.state)

\* ------------------------------------------------------ jump to a variant
\* init_state of get_debug_image_for_variant
init_state(state_, task, metric, evts) ==
    _reset_variant_states([state_ EXCEPT !.task = task, !.metric = metric], evts)

\* mutant: the metric of the state is not compared
validate_state_raises_task_only(state_, task, metric) == state_.task # task

\* validate_state raises InvalidScrollId
validate_state_raises(state_, task, metric) ==
    state_.task # task \/ state_.metric # metric

\* validate_state when it does not raise
validate_state(state_, refresh, evts) ==
    IF refresh THEN _reset_variant_states(state_, evts) ELSE state_

\* mutant: the requested iteration left out of the range
variant_iter_range_open(iter, iteration, min_iteration) == iter >= min_iteration

\* {"range": {"iter": {"lte": iteration, "gte": var_state.min_iteration}}}, or
\* {"range": {"iter": {"gte": var_state.min_iteration}}} when iteration is None
variant_iter_range(iter, iteration, min_iteration) ==
    IF iteration # NoIteration
    THEN iter <= iteration /\ iter >= min_iteration
    ELSE iter >= min_iteration

\* the document query of get_debug_image_for_variant: "sort": {"iter": "desc"}
latest_for_variant(task, metric, variant, iteration, var_state, evts) ==
    LET hits == {d \in evts :
                    /\ d.task = task
                    /\ d.metric = metric
                    /\ d.variant = variant
                    /\ exists_url(d)
                    /\ variant_iter_range(d.iter, iteration, var_state.min_iteration)}
        before == {x \in hits \X hits : x[1].iter > x[2].iter}
    IN  first_hit(hits, before)

\* the body of the with block, on the state the cache manager yields.
\* es_ok = FALSE: the search backend fails the document query.
variant_body(state, task, metric, variant, iteration, evts, es_ok) ==
    LET res == DebugSampleHistoryResult(state.id)
        var_state == first_var_state(state.variant_states, variant)
        vs == CHOOSE v \in var_state : TRUE
        res1 == [res EXCEPT !.min_iteration = vs.min_iteration,
                            !.max_iteration = vs.max_iteration]
        hit == latest_for_variant(task, metric, variant, iteration, vs, evts)
        filled == _fill_res_and_update_state(hit, res1, state)
    IN  IF var_state = {} THEN Outcome(res, None, FALSE, state)
        ELSE IF ~es_ok
        THEN Outcome(res1, translate_errors_context("ElasticsearchException"), FALSE, state)
        ELSE IF hit = NoDoc THEN Outcome(res1, None, FALSE, state)
        ELSE Outcome(filled.res, None, FALSE, filled.state)

\* ---------------------------------------------------------- cursor cache
\* RedisCacheManager: get_state, set_state and get_or_create_state
NoState == DebugSampleHistoryState(NoId)

get_state(st, state_id) == IF state_id \in DOMAIN st THEN st[state_id] ELSE NoState

set_state(st, state) == [st EXCEPT ![state.id] = state]

\* mutant: the id minted is not a new one
lock_id_minted_twice(state_id, new_id) == IF state_id # NoId THEN state_id ELSE 1

\* mutant: an id is minted also when one is passed
lock_id_always_new(state_id, new_id) == new_id

\* the id get_or_create_state locks: the one passed, or a freshly minted one
lock_id(state_id, new_id) == IF state_id # NoId THEN state_id ELSE new_id

\* get_or_create_state up to the yield, on the entry loaded under the lock:
\* an existing state is validated, a new one is built and initialised.
\* fail = "resolve": the search backend fails the range aggregation.
enter_state(loaded, id, task, metric, refresh, evts, fail) ==
    IF loaded # NoState
    THEN IF validate_state_raises(loaded, task, metric)
         THEN [raised |-> "InvalidScrollId", state |-> loaded]
         ELSE IF refresh /\ fail = "resolve"
         THEN [raised |-> translate_errors_context("ElasticsearchException"),
               state |-> loaded]
         ELSE [raised |-> None, state |-> validate_state(loaded, refresh, evts)]
    ELSE IF fail = "resolve"
         THEN [raised |-> translate_errors_context("ElasticsearchException"),
               state |-> loaded]
         ELSE [raised |-> None,
               state |-> init_state(DebugSampleHistoryState(id), task, metric, evts)]

\* get_or_create_state when the with block is left: the state is saved on a
\* normal exit and not on an exception
save_on_exit(out) == [out EXCEPT !.save = (out.raised = None)]

\* get_debug_image_for_variant inside the lock, from the entry loaded to the
\* exit of the with block
get_debug_image_for_variant(loaded, id, task, metric, variant, iteration, refresh, evts, fail) ==
    LET entered == enter_state(loaded, id, task, metric, refresh, evts, fail)
    IN  IF entered.raised # None
        THEN Outcome(DebugSampleHistoryResult(NoId), entered.raised, FALSE, loaded)
        ELSE save_on_exit(variant_body(entered.state, task, metric, variant, iteration,
                                       evts, fail # "query"))

\* ------------------------------------------------------------ settings
\* the characters of a key and the separator
MaxKeyLen == 2
Chars == {"a", "."}
Seps == {"."}
Values == 1..2
NoValue == 0

RECURSIVE KeysUpTo(_)
KeysUpTo(n) ==
    IF n = 0 THEN {<< >>}
    ELSE LET shorter == KeysUpTo(n - 1)
         IN  shorter \cup {Append(k, c) : k \in {x \in shorter : Len(x) = n - 1}, c \in Chars}

RECURSIVE lstrip(_, _)
lstrip(key, sep) ==
    IF key = << >> \/ Head(key) # sep THEN key ELSE lstrip(Tail(key), sep)

RECURSIVE rstrip(_, _)
rstrip(key, sep) ==
    IF key = << >> \/ key[Len(key)] # sep THEN key
    ELSE rstrip(SubSeq(key, 1, Len(key) - 1), sep)

\* key.strip(sep)
strip(key, sep) == rstrip(lstrip(key, sep), sep)

\* the keys a call may pass: those that name something once stripped
Keys == {k \in KeysUpTo(MaxKeyLen) : \E sep \in Seps : strip(k, sep) # << >>}

\* the primary keys a document may have
StoredKeys == {strip(k, sep) : k \in Keys, sep \in Seps}

NoSettings == [k \in StoredKeys |-> NoValue]

\* mutant: save() without force_insert writes over the document of the key
save_overwrite(db, key, value) ==
    [db |-> [db EXCEPT ![key] = value], raised |-> None, res |-> TRUE]

\* cls(key=key, value=value).save(force_insert=True): the insert fails with
\* NotUniqueError when a document has the primary key
save_force_insert(db, key, value) ==
    IF db[key] # NoValue
    THEN [db |-> db, raised |-> "NotUniqueError", res |-> FALSE]
    ELSE [db |-> [db EXCEPT ![key] = value], raised |-> None, res |-> TRUE]

\* Settings.objects(key=key).update(key=key, value=value, upsert=True)
update_upsert(db, key, value) ==
    [db |-> [db EXCEPT ![key] = value], raised |-> None, res |-> TRUE]

\* add_value from the save on: bool(res), or False on NotUniqueError
add_value(db, key, value) ==
    LET saved == save_force_insert(db, key, value)
    IN  IF saved.raised = "NotUniqueError" THEN [db |-> saved.db, res |-> FALSE]
        ELSE [db |-> saved.db, res |-> saved.res]

\* set_or_add_value from the update on
set_or_add_value(db, key, value) ==
    LET updated == update_upsert(db, key, value)
    IN  [db |-> updated.db, res |-> updated.res]

\* ---------------------------------------------------------------- state
NumProcs == 2
MaxIds == 2
MaxNavIds == 1
ExpirationInterval == 2

Procs == 1..NumProcs
\* an id no call minted: what a client holds of a cursor that never existed
GhostId == MaxIds + 1
StateIds == 1..GhostId

VARIABLES
    events,     \* the documents of the events index
    store,      \* the cache: state id -> stored state (NoState: no entry)
    expires,    \* the cache: state id -> time left before the entry expires
    minted,     \* how many state ids were minted
    lock,       \* state id -> the request holding its lock (0: free)
    proc,       \* request -> its arguments, position and outcome
    settings    \* the settings collection: key -> value (NoValue: no document)

vars == <<events, store, expires, minted, lock, proc, settings>>

\* a request: its arguments, the entry it read (pre), the outcome, the
\* number of set_state calls it made
Request(pc, op, task, metric, variant, iteration, refresh, state_id, navigate_earlier, fail, id, pre, out, saves) ==
    [pc |-> pc, op |-> op, task |-> task, metric |-> metric, variant |-> variant,
     iteration |-> iteration, refresh |-> refresh, state_id |-> state_id,
     navigate_earlier |-> navigate_earlier, fail |-> fail, id |-> id,
     pre |-> pre, out |-> out, saves |-> saves, n |-> 0]

NoOutcome == Outcome(DebugSampleHistoryResult(NoId), None, FALSE, NoState)

Idle == Request("idle", None, None, None, NoVariant, NoIteration, FALSE, NoId,
                FALSE, "none", NoId, NoState, NoOutcome, 0)

\* the sets of at most n documents with one document per task, metric,
\* variant and iteration
RECURSIVE DataSets(_, _)
DataSets(universe, n) ==
    IF n = 0 THEN {{}}
    ELSE LET smaller == DataSets(universe, n - 1)
         IN  smaller \cup
             {S \cup {d} : <<S, d>> \in
                {x \in smaller \X universe :
                    \A e \in x[1] : ~(/\ e.task = x[2].task
                                       /\ e.metric = x[2].metric
                                       /\ e.variant = x[2].variant
                                       /\ e.iter = x[2].iter)}}

\* the debug images of task T1 and metric M1
NavUniverse ==
    {Doc("T1", "M1", v, i, u) : v \in Variants, i \in Iters, u \in Urls}

\* documents no query on T1 and M1 may return: of another task, of another
\* metric, and one that holds no url
NoiseDocs ==
    {Doc("T2", "M1", MaxVariant, MaxIter, 1), Doc("T1", "M2", MaxVariant, MaxIter, 1),
     Doc("T1", "M1", MaxVariant, MaxIter, NoUrl)}

InitCache ==
    /\ store = [i \in StateIds |-> NoState]
    /\ expires = [i \in StateIds |-> 0]
    /\ minted = 0
    /\ lock = [i \in StateIds |-> 0]
    /\ proc = [p \in Procs |-> Idle]
    /\ settings = NoSettings

Init ==
    /\ \E base \in DataSets(NavUniverse, MaxDocs) : events = base \cup NoiseDocs
    /\ InitCache

\* what set_state does to the cache
Save(state) ==
    /\ store' = set_state(store, state)
    /\ expires' = [expires EXCEPT ![state.id] = ExpirationInterval]

\* ------------------------------------------- whole requests, one at a time
\* get_next_debug_image(task, state_id, navigate_earlier) by request p
Advance(p, task, state_id, navigate_earlier, es_ok) ==
    LET pre == get_state(store, state_id)
        out == get_next_debug_image(pre, task, state_id, navigate_earlier, events, es_ok)
    IN  /\ proc[p].pc \in {"idle", "done"}
        /\ proc' = [proc EXCEPT ![p] =
              Request("done", "advance", task, None, NoVariant, NoIteration, FALSE,
                      state_id, navigate_earlier, IF es_ok THEN "none" ELSE "query",
                      NoId, pre, out, IF out.save THEN 1 ELSE 0)]
        /\ IF out.save THEN Save(out.state) ELSE UNCHANGED <<store, expires>>
        /\ UNCHANGED <<events, minted, lock, settings>>

\* get_debug_image_for_variant by request p, the lock of its id being free
JumpToVariant(p, task, metric, variant, iteration, refresh, state_id, fail, max_ids) ==
    LET id == lock_id(state_id, minted + 1)
        pre == get_state(store, id)
        out == get_debug_image_for_variant(pre, id, task, metric, variant, iteration,
                                           refresh, events, fail)
    IN  /\ proc[p].pc \in {"idle", "done"}
        /\ state_id = NoId => minted < max_ids
        /\ IF check_empty_data(events)
           THEN /\ proc' = [proc EXCEPT ![p] =
                      Request("done", "jump", task, metric, variant, iteration, refresh,
                              state_id, FALSE, fail, NoId, NoState,
                              Outcome(DebugSampleHistoryResult(NoId), None, FALSE, NoState), 0)]
                /\ UNCHANGED <<store, expires, minted>>
           ELSE /\ lock[id] = 0
                /\ proc' = [proc EXCEPT ![p] =
                      Request("done", "jump", task, metric, variant, iteration, refresh,
                              state_id, FALSE, fail, id, pre, out,
                              IF out.save THEN 1 ELSE 0)]
                /\ minted' = IF id # state_id THEN minted + 1 ELSE minted
                /\ IF out.save THEN Save(out.state) ELSE UNCHANGED <<store, expires>>
        /\ UNCHANGED <<events, lock, settings>>

NavAdvance ==
    \E state_id \in 1..minted, navigate_earlier \in BOOLEAN :
        Advance(1, "T1", state_id, navigate_earlier, TRUE)

NavJump ==
    \E variant \in Variants, iteration \in Iters \cup {NoIteration},
       state_id \in (1..minted) \cup {NoId} :
        JumpToVariant(1, "T1", "M1", variant, iteration, FALSE, state_id, "none", MaxNavIds)

Next == NavAdvance \/ NavJump

Spec == Init /\ [][Next]_vars

\* ------------------------------------------ requests step by step, in parallel
MaxRequests == 1

\* the documents a running task may still report
ConcUniverse ==
    {Doc("T1", "M1", 1, 0, 1), Doc("T1", "M1", 1, 1, 2), Doc("T1", "M1", 2, 1, 1)}

\* what the index held when the cursor of the initial state was made: what it
\* holds now, or the first document reported alone
OlderEvents(evts) == {evts, {Doc("T1", "M1", 1, 0, 1)}}

\* the cache after one jump to variant 1 or 2 of T1 and M1 made a cursor
CursorMade(evts, variant) ==
    get_debug_image_for_variant(NoState, 1, "T1", "M1", variant, NoIteration, FALSE,
                                evts, "none").state

InitConc ==
    /\ events \in {{}, ConcUniverse}
    /\ settings = NoSettings
    /\ lock = [i \in StateIds |-> 0]
    /\ proc = [p \in Procs |-> Idle]
    /\ \/ /\ store = [i \in StateIds |-> NoState]
          /\ expires = [i \in StateIds |-> 0]
          /\ minted = 0
       \/ /\ events # {}
          /\ \E variant \in 1..2, older \in OlderEvents(events) :
                store = [i \in StateIds |-> IF i = 1 THEN CursorMade(older, variant)
                                            ELSE NoState]
          /\ expires = [i \in StateIds |-> IF i = 1 THEN ExpirationInterval ELSE 0]
          /\ minted = 1

\* a document is indexed
IndexEvent(d) ==
    /\ d \notin events
    /\ events' = events \cup {d}
    /\ UNCHANGED <<store, expires, minted, lock, proc, settings>>

\* a unit of time passes: an entry whose time is up leaves the cache
Tick ==
    /\ \E i \in StateIds : expires[i] > 0
    /\ expires' = [i \in StateIds |-> IF expires[i] > 0 THEN expires[i] - 1 ELSE 0]
    /\ store' = [i \in StateIds |-> IF expires[i] = 1 THEN NoState ELSE store[i]]
    /\ UNCHANGED <<events, minted, lock, proc, settings>>

CanStart(p) == proc[p].pc \in {"idle", "done"} /\ proc[p].n < MaxRequests

\* get_next_debug_image up to set_state: reads the cache and navigates
AdvanceGet(p, task, state_id, navigate_earlier, es_ok) ==
    LET pre == get_state(store, state_id)
        out == get_next_debug_image(pre, task, state_id, navigate_earlier, events, es_ok)
    IN  /\ CanStart(p)
        /\ proc' = [proc EXCEPT ![p] =
              [Request(IF out.save THEN "set_state" ELSE "done", "advance", task, None,
                       NoVariant, NoIteration, FALSE, state_id, navigate_earlier,
                       IF es_ok THEN "none" ELSE "query", NoId, pre, out, 0)
               EXCEPT !.n = proc[p].n + 1]]
        /\ UNCHANGED <<events, store, expires, minted, lock, settings>>

\* mutant: the state is saved only if the cache still holds what was read
AdvanceSet_if_unchanged(p) ==
    /\ proc[p].pc = "set_state"
    /\ IF store[proc[p].state_id] = proc[p].pre
       THEN /\ Save(proc[p].out.state)
            /\ proc' = [proc EXCEPT ![p].pc = "done", ![p].saves = @ + 1]
       ELSE /\ proc' = [proc EXCEPT ![p].pc = "done"]
            /\ UNCHANGED <<store, expires>>
    /\ UNCHANGED <<events, minted, lock, settings>>

\* self.cache_manager.set_state(state=state) of get_next_debug_image
AdvanceSet(p) ==
    /\ proc[p].pc = "set_state"
    /\ Save(proc[p].out.state)
    /\ proc' = [proc EXCEPT ![p].pc = "done", ![p].saves = @ + 1]
    /\ UNCHANGED <<events, minted, lock, settings>>

\* get_debug_image_for_variant up to the with statement
JumpStart(p, task, metric, variant, iteration, refresh, state_id, fail) ==
    /\ CanStart(p)
    /\ state_id = NoId => minted < MaxIds
    /\ IF check_empty_data(events)
       THEN /\ proc' = [proc EXCEPT ![p] =
                  [Request("done", "jump", task, metric, variant, iteration, refresh,
                           state_id, FALSE, fail, NoId, NoState,
                           Outcome(DebugSampleHistoryResult(NoId), None, FALSE, NoState), 0)
                   EXCEPT !.n = proc[p].n + 1]]
            /\ UNCHANGED minted
       ELSE /\ proc' = [proc EXCEPT ![p] =
                  [Request("lock", "jump", task, metric, variant, iteration, refresh,
                           state_id, FALSE, fail, lock_id(state_id, minted + 1), NoState,
                           NoOutcome, 0)
                   EXCEPT !.n = proc[p].n + 1]]
            /\ minted' = IF state_id = NoId THEN minted + 1 ELSE minted
    /\ UNCHANGED <<events, store, expires, lock, settings>>

\* mutant: the lock is taken whoever holds it
JumpAcquire_unguarded(p) ==
    /\ proc[p].pc = "lock"
    /\ lock' = [lock EXCEPT ![proc[p].id] = p]
    /\ proc' = [proc EXCEPT ![p].pc = "run"]
    /\ UNCHANGED <<events, store, expires, minted, settings>>

\* get_or_create_state takes the lock of the id
JumpAcquire(p) ==
    /\ proc[p].pc = "lock"
    /\ lock[proc[p].id] = 0
    /\ lock' = [lock EXCEPT ![proc[p].id] = p]
    /\ proc' = [proc EXCEPT ![p].pc = "run"]
    /\ UNCHANGED <<events, store, expires, minted, settings>>

\* the bounded wait for the lock ends while another request holds it
JumpLockTimeout(p) ==
    /\ proc[p].pc = "lock"
    /\ lock[proc[p].id] # 0
    /\ proc' = [proc EXCEPT ![p].pc = "done",
                            ![p].out = Outcome(DebugSampleHistoryResult(NoId),
                                               "LockTimeout", FALSE, NoState)]
    /\ UNCHANGED <<events, store, expires, minted, lock, settings>>

\* under the lock: load the entry, validate or initialise it, run the with block
JumpRun(p) ==
    LET r == proc[p]
        pre == get_state(store, r.id)
    IN  /\ r.pc = "run"
        /\ proc' = [proc EXCEPT ![p].pc = "exit",
                                ![p].pre = pre,
                                ![p].out = get_debug_image_for_variant(
                                              pre, r.id, r.task, r.metric, r.variant,
                                              r.iteration, r.refresh, events, r.fail)]
        /\ UNCHANGED <<events, store, expires, minted, lock, settings>>

\* the with block is left: the state is saved unless an exception leaves it
JumpExit(p) ==
    /\ proc[p].pc = "exit"
    /\ IF proc[p].out.save
       THEN /\ Save(proc[p].out.state)
            /\ proc' = [proc EXCEPT ![p].pc = "release", ![p].saves = @ + 1]
       ELSE /\ proc' = [proc EXCEPT ![p].pc = "release"]
            /\ UNCHANGED <<store, expires>>
    /\ UNCHANGED <<events, minted, lock, settings>>

\* the lock is released and the request returns or raises
JumpRelease(p) ==
    /\ proc[p].pc = "release"
    /\ lock' = [lock EXCEPT ![proc[p].id] = 0]
    /\ proc' = [proc EXCEPT ![p].pc = "done"]
    /\ UNCHANGED <<events, store, expires, minted, settings>>

ConcAdvanceGet ==
    \E p \in Procs, task \in Tasks, state_id \in (1..minted) \cup {GhostId},
       navigate_earlier \in BOOLEAN :
        AdvanceGet(p, task, state_id, navigate_earlier, TRUE)

ConcJumpStart ==
    \E p \in Procs, task \in Tasks, refresh \in BOOLEAN,
       state_id \in (0..minted) \cup {GhostId}, fail \in {"none", "resolve", "query"} :
        JumpStart(p, task, "M1", 1, NoIteration, refresh, state_id, fail)

NextConc ==
    \/ ConcAdvanceGet
    \/ \E p \in Procs : AdvanceSet(p)
    \/ ConcJumpStart
    \/ \E p \in Procs : JumpAcquire(p)
    \/ \E p \in Procs : JumpLockTimeout(p)
    \/ \E p \in Procs : JumpRun(p)
    \/ \E p \in Procs : JumpExit(p)
    \/ \E p \in Procs : JumpRelease(p)

SpecConc == InitConc /\ [][NextConc]_vars

\* ---------------------------------- the life of a cursor, one request at a time
\* the events of a task are deleted
DeleteEvents ==
    /\ events # {}
    /\ events' = {}
    /\ UNCHANGED <<store, expires, minted, lock, proc, settings>>

LifeAdvance ==
    \E task \in Tasks, state_id \in (1..minted) \cup {GhostId}, navigate_earlier \in BOOLEAN :
        Advance(1, task, state_id, navigate_earlier, TRUE)

LifeJump ==
    \E task \in Tasks, metric \in Metrics, variant \in 1..2, refresh \in BOOLEAN,
       state_id \in (1..minted) \cup {NoId} :
        JumpToVariant(1, task, metric, variant, NoIteration, refresh, state_id, "none",
                      MaxNavIds)

LifeIndexEvent == \E d \in ConcUniverse : IndexEvent(d)

NextLife ==
    \/ LifeAdvance
    \/ LifeJump
    \/ LifeIndexEvent
    \/ DeleteEvents
    \/ Tick

InitLife ==
    /\ events = {}
    /\ InitCache

SpecLife == InitLife /\ [][NextLife]_vars

\* ------------------------- requests step by step while the events are deleted
EmptyAdvanceGet ==
    \E p \in Procs, task \in Tasks, state_id \in (1..minted) \cup {GhostId},
       navigate_earlier \in BOOLEAN, es_ok \in BOOLEAN :
        AdvanceGet(p, task, state_id, navigate_earlier, es_ok)

NextEmpty ==
    \/ EmptyAdvanceGet
    \/ \E p \in Procs : AdvanceSet(p)
    \/ ConcJumpStart
    \/ \E p \in Procs : JumpAcquire(p)
    \/ \E p \in Procs : JumpLockTimeout(p)
    \/ \E p \in Procs : JumpRun(p)
    \/ \E p \in Procs : JumpExit(p)
    \/ \E p \in Procs : JumpRelease(p)
    \/ DeleteEvents

SpecEmpty == InitConc /\ [][NextEmpty]_vars

\* ------------------------------------------------- the resolver on its own
\* the debug images of two tasks, with and without url, and one of another metric
ResolveUniverse ==
    {Doc(t, "M1", v, i, u) : t \in Tasks, v \in Variants, i \in Iters, u \in Urls \cup {NoUrl}}
    \cup {Doc("T1", "M2", 1, 0, 1)}

InitResolve ==
    /\ events \in DataSets(ResolveUniverse, MaxDocs)
    /\ InitCache

\* _reset_variant_states on a new state of task and metric
Resolve(task, metric) ==
    /\ proc' = [proc EXCEPT ![1] =
          Request("done", "resolve", task, metric, NoVariant, NoIteration, FALSE, NoId,
                  FALSE, "none", NoId, NoState,
                  Outcome(DebugSampleHistoryResult(NoId), None, FALSE,
                          init_state(DebugSampleHistoryState(NoId), task, metric, events)),
                  0)]
    /\ UNCHANGED <<events, store, expires, minted, lock, settings>>

NextResolve == \E task \in Tasks, metric \in Metrics : Resolve(task, metric)

SpecResolve == InitResolve /\ [][NextResolve]_vars

\* ------------------------------------------- requests repeated on two cursors
InitRepeat ==
    /\ \E base \in SUBSET ConcUniverse : events = base \cup NoiseDocs
    /\ InitCache

RepeatAdvance ==
    \E state_id \in 1..minted, navigate_earlier \in BOOLEAN :
        Advance(1, "T1", state_id, navigate_earlier, TRUE)

RepeatJump ==
    \E variant \in Variants, iteration \in {NoIteration, 0}, refresh \in BOOLEAN,
       state_id \in (1..minted) \cup {NoId} :
        JumpToVariant(1, "T1", "M1", variant, iteration, refresh, state_id, "none", MaxIds)

NextRepeat == RepeatAdvance \/ RepeatJump

SpecRepeat == InitRepeat /\ [][NextRepeat]_vars

\* ------------------------------------- one cursor walked in one direction
WalkDocs == 2

\* a jump to variant and iteration placed cursor 1 on a sample
InitWalk ==
    /\ \E base \in DataSets(NavUniverse, WalkDocs) : events = base \cup NoiseDocs
    /\ \E variant \in Variants, iteration \in Iters \cup {NoIteration} :
          LET made == get_debug_image_for_variant(NoState, 1, "T1", "M1", variant,
                                                  iteration, FALSE, events, "none")
          IN  /\ made.res.event # NoDoc
              /\ store = [i \in StateIds |-> IF i = 1 THEN made.state ELSE NoState]
    /\ expires = [i \in StateIds |-> IF i = 1 THEN ExpirationInterval ELSE 0]
    /\ minted = 1
    /\ lock = [i \in StateIds |-> 0]
    /\ proc = [p \in Procs |-> Idle]
    /\ settings = NoSettings

\* the client advances again, in the direction of its first advance
WalkAdvance ==
    \E navigate_earlier \in BOOLEAN :
        /\ proc[1].op = "advance" => navigate_earlier = proc[1].navigate_earlier
        /\ Advance(1, "T1", 1, navigate_earlier, TRUE)

NextWalk == WalkAdvance

\* every call returns: the client is never kept from its next advance
SpecWalk == InitWalk /\ [][NextWalk]_vars /\ WF_vars(WalkAdvance)

\* ------------------------------------------------- calls on the settings
\* a call on Settings: its arguments, the key stripped, what it returned
SettingsCall(pc, op, key, value, sep, stripped, res) ==
    [pc |-> pc, op |-> op, key |-> key, value |-> value, sep |-> sep,
     stripped |-> stripped, res |-> res]

InitSettings ==
    /\ events = {}
    /\ InitCache

\* add_value up to the save: the key is stripped
AddValueStart(p, key, value, sep) ==
    /\ proc[p].pc \in {"idle", "done"}
    /\ proc' = [proc EXCEPT ![p] =
          SettingsCall("save", "add_value", key, value, sep, strip(key, sep), FALSE)]
    /\ UNCHANGED <<events, store, expires, minted, lock, settings>>

\* add_value from the save on
AddValueSave(p) ==
    LET r == proc[p]
        out == add_value(settings, r.stripped, r.value)
    IN  /\ r.pc = "save"
        /\ settings' = out.db
        /\ proc' = [proc EXCEPT ![p].pc = "done", ![p].res = out.res]
        /\ UNCHANGED <<events, store, expires, minted, lock>>

\* set_or_add_value up to the update: the key is stripped
SetOrAddValueStart(p, key, value, sep) ==
    /\ proc[p].pc \in {"idle", "done"}
    /\ proc' = [proc EXCEPT ![p] =
          SettingsCall("update", "set_or_add_value", key, value, sep, strip(key, sep), FALSE)]
    /\ UNCHANGED <<events, store, expires, minted, lock, settings>>

\* set_or_add_value from the update on
SetOrAddValueUpdate(p) ==
    LET r == proc[p]
        out == set_or_add_value(settings, r.stripped, r.value)
    IN  /\ r.pc = "update"
        /\ settings' = out.db
        /\ proc' = [proc EXCEPT ![p].pc = "done", ![p].res = out.res]
        /\ UNCHANGED <<events, store, expires, minted, lock>>

NextSettings ==
    \/ \E p \in Procs, key \in Keys, value \in Values, sep \in Seps :
          AddValueStart(p, key, value, sep)
    \/ \E p \in Procs : AddValueSave(p)
    \/ \E p \in Procs, key \in Keys, value \in Values, sep \in Seps :
          SetOrAddValueStart(p, key, value, sep)
    \/ \E p \in Procs : SetOrAddValueUpdate(p)

SpecSettings == InitSettings /\ [][NextSettings]_vars

\* ====================================================================
\* Properties
\* ====================================================================
IsMax(i, S) == i \in S /\ \A j \in S : j <= i
IsMin(i, S) == i \in S /\ \A j \in S : i <= j

\* the documents of task and metric that hold a payload reference
Samples(task, metric) ==
    {d \in events : d.task = task /\ d.metric = metric /\ d.url # NoUrl}

\* the ranges of variant v in a state
RangesOf(st, v) ==
    {st.variant_states[k] : k \in {j \in 1..Len(st.variant_states) :
                                      st.variant_states[j].name = v}}

\* d is a sample of the state's task and metric inside its variant's window
ValidFor(st, d) ==
    /\ d \in Samples(st.task, st.metric)
    /\ \E vr \in RangesOf(st, d.variant) : vr.min_iteration <= d.iter

Positioned(st) == st.variant # NoVariant

\* a lies strictly beyond b in the direction
InDirection(earlier, a, b) == IF earlier THEN a < b ELSE a > b

\* the valid samples on the state's iteration, beyond its variant
Siblings(st, earlier) ==
    {d \in events : /\ ValidFor(st, d)
                    /\ d.iter = st.iteration
                    /\ InDirection(earlier, d.variant, st.variant)}

\* the valid samples on iterations beyond the state's
Others(st, earlier) ==
    {d \in events : ValidFor(st, d) /\ InDirection(earlier, d.iter, st.iteration)}

\* request r is an advance that returned, from a stored position
AdvancedFrom(r) ==
    /\ r.pc = "done"
    /\ r.op = "advance"
    /\ r.out.raised = None
    /\ r.pre # NoState
    /\ Positioned(r.pre)

\* C1: an advance from a stored position (v, i) with a valid sample at
\* iteration i on a variant beyond v returns the sample at iteration i of the
\* nearest such variant, whatever lies on other iterations.
C1_SameIterationFirst ==
    \A p \in Procs :
        LET r == proc[p]
            sib == Siblings(r.pre, r.navigate_earlier)
            e == r.out.res.event
        IN  (AdvancedFrom(r) /\ sib # {}) =>
                /\ e \in sib
                /\ e.iter = r.pre.iteration
                /\ \A d \in sib : d.variant = e.variant
                                  \/ InDirection(r.navigate_earlier, d.variant, e.variant)

\* an advance forward took the sibling although a later iteration holds samples
C1_Witness ==
    LET r == proc[1]
    IN  /\ AdvancedFrom(r)
        /\ ~r.navigate_earlier
        /\ Siblings(r.pre, FALSE) # {}
        /\ Others(r.pre, FALSE) # {}
        /\ r.out.res.event.iter = r.pre.iteration
        /\ store[r.state_id].variant = r.out.res.event.variant

\* the documents of T1 and M1 with a url lie exactly on the slots given
SlotsAre(slots) ==
    {<<d.variant, d.iter>> : d \in Samples("T1", "M1")} = slots

\* C2: the other iterations are searched only when the state's iteration holds
\* no valid sample beyond its variant; the advance then returns the valid sample
\* on the nearest iteration beyond, and on that iteration the last variant
\* (backward) or the first (forward). With a@0, b@0, a@1 an advance backward
\* from (a, 1) returns b@0.
C2_NearestIteration ==
    \A p \in Procs :
        LET r == proc[p]
            sib == Siblings(r.pre, r.navigate_earlier)
            oth == Others(r.pre, r.navigate_earlier)
            e == r.out.res.event
        IN  AdvancedFrom(r) =>
                /\ (e # NoDoc /\ e.iter # r.pre.iteration) => sib = {}
                /\ (sib = {} /\ oth = {}) => e = NoDoc
                /\ (sib = {} /\ oth # {}) =>
                      /\ e \in oth
                      /\ \A d \in oth :
                            \/ InDirection(r.navigate_earlier, d.iter, e.iter)
                            \/ /\ d.iter = e.iter
                               /\ IF r.navigate_earlier THEN d.variant <= e.variant
                                                        ELSE d.variant >= e.variant
                /\ ( /\ SlotsAre({<<1, 0>>, <<2, 0>>, <<1, 1>>})
                     /\ r.navigate_earlier
                     /\ r.pre.variant = 1 /\ r.pre.iteration = 1 ) =>
                      (e.variant = 2 /\ e.iter = 0)

\* a@0, b@0, a@1: the advance backward from (a, 1) returned b@0
C2_Witness ==
    LET r == proc[1]
    IN  /\ AdvancedFrom(r)
        /\ SlotsAre({<<1, 0>>, <<2, 0>>, <<1, 1>>})
        /\ r.navigate_earlier
        /\ r.pre.variant = 1 /\ r.pre.iteration = 1
        /\ r.out.res.event.variant = 2 /\ r.out.res.event.iter = 0
        /\ store[r.state_id].variant = 2 /\ store[r.state_id].iteration = 0

RecycledThenNew(x, i, j, k) ==
    LET mine == {d \in Samples("T1", "M1") : d.variant = x}
    IN  /\ i < j /\ j < k
        /\ {d.iter : d \in mine} = {i, j, k}
        /\ Cardinality(mine) = 3
        /\ \E u, w \in Urls :
              /\ u # w
              /\ \A d \in mine : d.url = IF d.iter = k THEN w ELSE u

\* C4 as claimed: the recycled payload's two iterations lie below min_iteration,
\* which is the iteration of the new payload, and neither sample is returned
C4_Original ==
    \A x \in Variants, i, j, k \in Iters :
        RecycledThenNew(x, i, j, k) =>
            /\ \A id \in StateIds :
                  (store[id] # NoState /\ store[id].task = "T1" /\ store[id].metric = "M1") =>
                      \A vr \in RangesOf(store[id], x) : vr.min_iteration = k
            /\ \A p \in Procs :
                  (proc[p].pc = "done" /\ proc[p].out.res.event.variant = x) =>
                      proc[p].out.res.event.iter \notin {i, j}

\* C4 (amended): with samples of x on i < j sharing a payload reference and a
\* sample on k > j holding a new one, min_iteration of x is j, the last
\* iteration of the shared payload, and max_iteration is k; the sample on i is
\* never returned, those on j and k are.
C4_RecycledWindow ==
    \A x \in Variants, i, j, k \in Iters :
        RecycledThenNew(x, i, j, k) =>
            /\ \A id \in StateIds :
                  (store[id] # NoState /\ store[id].task = "T1" /\ store[id].metric = "M1") =>
                      /\ RangesOf(store[id], x) # {}
                      /\ \A vr \in RangesOf(store[id], x) :
                            vr.min_iteration = j /\ vr.max_iteration = k
            /\ \A p \in Procs :
                  (proc[p].pc = "done" /\ proc[p].out.res.event.variant = x) =>
                      proc[p].out.res.event.iter \in {j, k}

\* an advance backward from the new payload returned the last recycled sample
C4_Witness ==
    \E x \in Variants, i, j, k \in Iters :
        /\ RecycledThenNew(x, i, j, k)
        /\ AdvancedFrom(proc[1])
        /\ proc[1].navigate_earlier
        /\ proc[1].pre.variant = x /\ proc[1].pre.iteration = k
        /\ proc[1].out.res.event.variant = x /\ proc[1].out.res.event.iter = j
        /\ store[proc[1].state_id].iteration = j

\* request r is a jump that ran its with block to a normal exit
Jumped(r) ==
    /\ r.pc = "done"
    /\ r.op = "jump"
    /\ r.out.raised = None
    /\ r.id # NoId

\* the samples of the requested variant from min_iteration of rng up to the
\* requested iteration
Window(r, rng) ==
    {d \in Samples(r.task, r.metric) :
        /\ d.variant = r.variant
        /\ \E vr \in rng : vr.min_iteration <= d.iter
        /\ (r.iteration # NoIteration => d.iter <= r.iteration)}

\* C6: a jump to a variant of variant_states returns that variant's bounds and
\* its sample of the greatest iteration in [min_iteration, iteration], or from
\* min_iteration on when no iteration is passed; no document when the window
\* holds none.
C6_JumpWindow ==
    \A p \in Procs :
        LET r == proc[p]
            rng == RangesOf(r.out.state, r.variant)
            window == Window(r, rng)
            e == r.out.res.event
        IN  (Jumped(r) /\ rng # {}) =>
                /\ \E vr \in rng : /\ r.out.res.min_iteration = vr.min_iteration
                                   /\ r.out.res.max_iteration = vr.max_iteration
                /\ IF window = {} THEN e = NoDoc
                   ELSE e \in window /\ \A d \in window : d.iter <= e.iter

\* a jump to an iteration returned a sample although the variant holds a later
\* sample and a recycled one below min_iteration
C6_Witness ==
    LET r == proc[1]
        rng == RangesOf(r.out.state, r.variant)
    IN  /\ Jumped(r)
        /\ r.iteration # NoIteration
        /\ r.out.res.event # NoDoc
        /\ \E d \in Samples(r.task, r.metric) : d.variant = r.variant /\ d.iter > r.iteration
        /\ \E d \in Samples(r.task, r.metric) :
              d.variant = r.variant /\ \A vr \in rng : d.iter < vr.min_iteration

\* C8: an advance from a stored position with no valid sample beyond it raises
\* nothing and returns no document and the scroll id passed, and saves nothing:
\* the stored state is the one it read.
C8_Boundary ==
    \A p \in Procs :
        LET r == proc[p]
        IN  ( /\ r.pc = "done" /\ r.op = "advance" /\ r.fail = "none"
              /\ r.pre # NoState /\ r.pre.task = r.task
              /\ Positioned(r.pre)
              /\ Siblings(r.pre, r.navigate_earlier) = {}
              /\ Others(r.pre, r.navigate_earlier) = {} ) =>
                /\ r.out.raised = None
                /\ r.out.res = DebugSampleHistoryResult(r.state_id)
                /\ r.saves = 0
                /\ store[r.state_id] = r.pre

\* an advance forward at the last variant of the highest iteration, with
\* samples behind it
C8_Witness ==
    LET r == proc[1]
    IN  /\ AdvancedFrom(r)
        /\ ~r.navigate_earlier
        /\ Siblings(r.pre, FALSE) = {}
        /\ Others(r.pre, FALSE) = {}
        /\ Siblings(r.pre, TRUE) # {}
        /\ Others(r.pre, TRUE) # {}
        /\ r.out.res.event = NoDoc
        /\ r.out.res.scroll_id = r.state_id

\* the last iteration on which payload reference u occurs among docs
LastIterOf(docs, u) == CHOOSE i \in Iters : IsMax(i, {d.iter : d \in {e \in docs : e.url = u}})

C7_InvalidCursor ==
    [][\A p \in Procs :
          ( /\ proc'[p] # proc[p]
            /\ proc[p].pc \in {"idle", "done"}
            /\ proc'[p].op = "advance"
            /\ \/ store[proc'[p].state_id] = NoState
               \/ store[proc'[p].state_id].task # proc'[p].task ) =>
              /\ proc'[p].pc = "done"
              /\ proc'[p].out.raised = "InvalidScrollId"
              /\ proc'[p].out.res.event = NoDoc
              /\ proc'[p].saves = 0
              /\ store' = store
              /\ expires' = expires]_vars

\* an advance on an expired cursor raised although the index is empty
C7_Witness ==
    LET r == proc[1]
    IN  /\ r.pc = "done" /\ r.op = "advance"
        /\ r.state_id \in 1..minted
        /\ r.pre = NoState
        /\ store[r.state_id] = NoState
        /\ events = {}
        /\ r.out.raised = "InvalidScrollId"

\* request p is between taking and releasing the lock of its id
InTransaction(p) == proc[p].pc \in {"run", "exit", "release"}

\* C9: no two jumps are between taking and releasing the lock of one state id;
\* a jump gives up with LockTimeout only while another request holds the lock
\* of the same id, and has then neither read nor written the cache.
C9_OneTransactionPerCursor ==
    [][/\ \A p, q \in Procs :
             (p # q /\ InTransaction(p)' /\ InTransaction(q)') => proc'[p].id # proc'[q].id
       /\ \A p \in Procs :
             (proc[p].pc = "lock" /\ proc'[p].pc = "done") =>
                 /\ proc'[p].out.raised = "LockTimeout"
                 /\ \E q \in Procs \ {p} :
                       /\ lock[proc[p].id] = q
                       /\ InTransaction(q)
                       /\ proc[q].id = proc[p].id
                 /\ proc'[p].pre = NoState
                 /\ proc'[p].saves = 0
                 /\ store' = store
                 /\ expires' = expires
       /\ \A p \in Procs :
             (proc[p].pc = "lock" /\ proc'[p].pc = "run") =>
                 /\ lock[proc[p].id] = 0
                 /\ lock'[proc[p].id] = p]_vars

\* one jump holds the lock of a cursor, the other gave up on the same cursor
C9_Witness ==
    \E p, q \in Procs :
        /\ p # q
        /\ InTransaction(p)
        /\ lock[proc[p].id] = p
        /\ proc[q].pc = "done" /\ proc[q].op = "jump"
        /\ proc[q].out.raised = "LockTimeout"
        /\ proc[q].id = proc[p].id

\* the search backend fails a request it is sent by jump r
BackendFails(r) ==
    \/ /\ r.fail = "resolve"
       /\ \/ r.pre = NoState
          \/ r.refresh /\ r.pre.task = r.task /\ r.pre.metric = r.metric
    \/ /\ r.fail = "query"
       /\ r.pre # NoState => (r.pre.task = r.task /\ r.pre.metric = r.metric)
       /\ RangesOf(r.out.state, r.variant) # {}

\* C10: a jump that took the lock holds none when it is done; it saves once
\* when it leaves the with block normally and not at all when an exception
\* leaves it, which a failure of the search backend and a state of another task
\* or metric do; no other step of a jump writes the cache.
C10_SaveOnNormalExit ==
    [][\A p \in Procs :
          /\ (proc[p].pc = "exit" /\ proc'[p].pc = "release") =>
                IF proc[p].out.raised = None
                THEN /\ store' = [store EXCEPT ![proc[p].id] = proc[p].out.state]
                     /\ proc'[p].saves = proc[p].saves + 1
                ELSE /\ store' = store
                     /\ expires' = expires
                     /\ proc'[p].saves = proc[p].saves
          /\ (proc'[p] # proc[p] /\ proc'[p].op = "jump" /\ proc[p].pc # "exit") =>
                (store' = store /\ expires' = expires)
          /\ (proc'[p] # proc[p] /\ proc'[p].pc = "done" /\ proc'[p].op = "jump"
                /\ proc'[p].id # NoId /\ proc'[p].out.raised # "LockTimeout") =>
                /\ \A i \in StateIds : lock'[i] # p
                /\ proc'[p].out.raised = None => proc'[p].saves = 1
                /\ proc'[p].out.raised # None => proc'[p].saves = 0
                /\ BackendFails(proc'[p]) => proc'[p].out.raised = "DataError"
                /\ (proc'[p].pre # NoState /\ proc'[p].pre.task # proc'[p].task) =>
                      proc'[p].out.raised = "InvalidScrollId"
          /\ \A i \in StateIds :
                lock'[i] = p => (InTransaction(p)' /\ proc'[p].id = i)]_vars

\* the range aggregation failed while a new cursor was initialised: the jump is
\* done, nothing is stored under the id it minted, its lock is free
C10_Witness ==
    \E p \in Procs :
        LET r == proc[p]
        IN  /\ r.pc = "done" /\ r.op = "jump"
            /\ r.state_id = NoId /\ r.id # NoId
            /\ r.out.raised = "DataError"
            /\ r.saves = 0
            /\ store[r.id] = NoState
            /\ lock[r.id] = 0

\* request p starts a jump on a cursor the cache holds whose task or metric is
\* not the one passed
JumpsOnForeignCursor(p) ==
    /\ proc'[p] # proc[p]
    /\ proc[p].pc \in {"idle", "done"}
    /\ proc'[p].op = "jump"
    /\ proc'[p].state_id # NoId
    /\ store[proc'[p].state_id] # NoState
    /\ \/ store[proc'[p].state_id].task # proc'[p].task
       \/ store[proc'[p].state_id].metric # proc'[p].metric

\* request p starts a jump on a cursor the cache holds
JumpsOnStoredCursor(p) ==
    /\ proc'[p] # proc[p]
    /\ proc[p].pc \in {"idle", "done"}
    /\ proc'[p].op = "jump"
    /\ proc'[p].state_id # NoId
    /\ store[proc'[p].state_id] # NoState

\* C11 as claimed: a jump on a cursor of another task or metric raises
\* InvalidScrollId, whatever the index holds
C11_Original ==
    [][\A p \in Procs :
          JumpsOnForeignCursor(p) =>
              /\ proc'[p].out.raised = "InvalidScrollId"
              /\ store' = store]_vars

\* C11 (amended): a jump on a stored cursor of another task or metric raises
\* InvalidScrollId when the index holds documents, and returns a result with
\* neither document nor scroll id when the index is empty; either way, refresh
\* set or not, the cache is as it was. The ranges of a stored cursor change
\* only by a jump with refresh set, matching task and metric and a non-empty
\* index, and are then the ranges resolved from the index.
C11_ForeignCursorRejected ==
    [][\A p \in Procs :
          /\ JumpsOnForeignCursor(p) =>
                /\ IF check_empty_data(events)
                   THEN /\ proc'[p].out.raised = None
                        /\ proc'[p].out.res = DebugSampleHistoryResult(NoId)
                   ELSE /\ proc'[p].out.raised = "InvalidScrollId"
                        /\ proc'[p].out.res.event = NoDoc
                /\ proc'[p].saves = 0
                /\ store' = store
                /\ expires' = expires
          /\ JumpsOnStoredCursor(p) =>
                LET id == proc'[p].state_id
                    resolves == /\ proc'[p].refresh
                                /\ ~check_empty_data(events)
                                /\ store[id].task = proc'[p].task
                                /\ store[id].metric = proc'[p].metric
                IN  /\ store'[id] # NoState
                    /\ store'[id].task = store[id].task
                    /\ store'[id].metric = store[id].metric
                    /\ store'[id].variant_states =
                          IF resolves
                          THEN _get_variant_iterations(events, store[id].task, store[id].metric)
                          ELSE store[id].variant_states]_vars

\* a jump with refresh set on a cursor of the task but of another metric raised
\* and the cursor, whose ranges the index has outgrown, is as it was
C11_Witness ==
    LET r == proc[1]
    IN  /\ r.pc = "done" /\ r.op = "jump"
        /\ r.state_id # NoId
        /\ r.refresh
        /\ r.pre # NoState
        /\ r.pre.task = r.task /\ r.pre.metric # r.metric
        /\ r.out.raised = "InvalidScrollId"
        /\ store[r.state_id] = r.pre
        /\ r.pre.variant_states # _get_variant_iterations(events, r.pre.task, r.pre.metric)

\* request p, whose last call was a jump, calls jump again with the arguments
\* of that call
JumpsAgain(p) ==
    /\ proc[p].pc = "done" /\ proc[p].op = "jump"
    /\ proc'[p].pc = "done" /\ proc'[p].op = "jump"
    /\ proc'[p].task = proc[p].task
    /\ proc'[p].metric = proc[p].metric
    /\ proc'[p].variant = proc[p].variant
    /\ proc'[p].iteration = proc[p].iteration
    /\ proc'[p].refresh = proc[p].refresh
    /\ proc'[p].state_id = proc[p].state_id
    /\ proc'[p].fail = proc[p].fail

\* C12 as claimed: the second of two identical jumps returns what the first
\* returned, scroll_id included, and leaves the cache as the first left it
C12_Original ==
    [][\A p \in Procs :
          JumpsAgain(p) =>
              /\ proc'[p].out.res = proc[p].out.res
              /\ store' = store]_vars

\* C12 (amended): the second of two identical jumps that pass a state id
\* returns what the first returned and leaves the cache as the first left it.
\* The second of two identical jumps that pass no state id returns the same
\* event and bounds under another scroll_id: it leaves the cursor of the first
\* as it is and stores, under its own id, a state that is otherwise equal.
C12_JumpIdempotent ==
    [][\A p \in Procs :
          JumpsAgain(p) =>
              IF proc[p].state_id # NoId
              THEN /\ proc'[p].out.res = proc[p].out.res
                   /\ proc'[p].out.raised = proc[p].out.raised
                   /\ store' = store
              ELSE /\ proc'[p].out.res.scroll_id # proc[p].out.res.scroll_id
                   /\ proc'[p].out.res =
                         [proc[p].out.res EXCEPT !.scroll_id = proc'[p].out.res.scroll_id]
                   /\ proc'[p].id # proc[p].id
                   /\ store' = [store EXCEPT ![proc'[p].id] =
                                   [store[proc[p].id] EXCEPT !.id = proc'[p].id]]]_vars

\* two jumps passed no state id: the cache holds two cursors equal but for
\* their ids, the second positioned by the jump on a sample
C12_Witness ==
    LET r == proc[1]
    IN  /\ r.pc = "done" /\ r.op = "jump"
        /\ r.state_id = NoId
        /\ r.id = 2
        /\ r.out.res.event # NoDoc
        /\ store[1] # NoState
        /\ store[2] = [store[1] EXCEPT !.id = 2]

\* request r is a jump that passed no state id and was given one
MintedJump(r) == r.op = "jump" /\ r.state_id = NoId /\ r.id # NoId

RangesOrdered(st) ==
    \A k \in 1..Len(st.variant_states) :
        st.variant_states[k].min_iteration <= st.variant_states[k].max_iteration

\* C14: in every state the cache holds, in every state a request read or
\* handed to set_state, and in what the resolver returns for the index as it
\* is, min_iteration <= max_iteration for every variant.
C14_MinBelowMax ==
    /\ \A id \in StateIds : RangesOrdered(store[id])
    /\ \A p \in Procs : RangesOrdered(proc[p].pre) /\ RangesOrdered(proc[p].out.state)
    /\ \A t \in Tasks, m \in Metrics :
          LET vs == _get_variant_iterations(events, t, m)
          IN  \A k \in 1..Len(vs) : vs[k].min_iteration <= vs[k].max_iteration

\* an advance saved a cursor whose ranges are those the index resolves to, one
\* of them with min_iteration < max_iteration
C14_Witness ==
    LET r == proc[1]
    IN  /\ r.pc = "done" /\ r.op = "advance" /\ r.saves = 1
        /\ \E k \in 1..Len(store[r.state_id].variant_states) :
              store[r.state_id].variant_states[k].min_iteration <
                 store[r.state_id].variant_states[k].max_iteration
        /\ store[r.state_id].variant_states =
              _get_variant_iterations(events, r.task, "M1")

\* the ranges of state st are in ascending order of variant name, no name twice
RangesSorted(st) ==
    \A j, k \in 1..Len(st.variant_states) :
        j < k => st.variant_states[j].name < st.variant_states[k].name

\* C15: in every state the cache holds and in every state a request read or
\* handed to set_state, variant_states is in strictly ascending order of
\* variant name; a save by advance stores the ranges it read, in their order.
C15_RangesSorted ==
    /\ \A id \in StateIds : RangesSorted(store[id])
    /\ \A p \in Procs :
          /\ RangesSorted(proc[p].pre)
          /\ RangesSorted(proc[p].out.state)
          /\ (proc[p].op = "advance" /\ proc[p].pc = "done") =>
                proc[p].out.state.variant_states = proc[p].pre.variant_states

\* a jump with refresh set resolved again the ranges of a cursor that held one
\* variant and now holds two
C15_Witness ==
    LET r == proc[1]
    IN  /\ r.pc = "done" /\ r.op = "jump" /\ r.refresh /\ r.saves = 1
        /\ r.state_id # NoId
        /\ Len(r.pre.variant_states) = 1
        /\ Len(store[r.state_id].variant_states) = 2

\* C16: an entry leaves the cache only when its time is up, never by a request;
\* the time an entry has left changes only by the passing of time and by a
\* save, which sets it to the full interval; a request that does not save,
\* as an advance that finds no document, leaves every entry and its time as
\* they were; an advance on an entry that has gone raises InvalidScrollId.
C16_ExpiryOnly ==
    [][/\ \A id \in StateIds :
             /\ (store[id] # NoState /\ store'[id] = NoState) =>
                   (expires[id] = 1 /\ expires'[id] = 0 /\ proc' = proc)
             /\ (expires'[id] # expires[id]) =>
                   \/ expires'[id] = expires[id] - 1 /\ proc' = proc /\ store'[id] \in {store[id], NoState}
                   \/ /\ expires'[id] = ExpirationInterval
                      /\ \E p \in Procs : /\ proc'[p].pc = "done"
                                          /\ proc'[p].saves = 1
                                          /\ proc'[p].out.state.id = id
                                          /\ store'[id] = proc'[p].out.state
             /\ (store'[id] # NoState) = (expires'[id] > 0)
       /\ \A p \in Procs :
             (proc'[p] # proc[p]) =>
                 /\ proc'[p].saves = 1 =>
                       expires'[proc'[p].out.state.id] = ExpirationInterval
                 /\ proc'[p].saves = 0 => (store' = store /\ expires' = expires)
                 /\ (proc'[p].op = "advance" /\ proc'[p].out.res.event = NoDoc) =>
                       proc'[p].saves = 0
                 /\ (proc'[p].op = "advance" /\ store[proc'[p].state_id] = NoState) =>
                       proc'[p].out.raised = "InvalidScrollId"]_vars

\* an advance found no document on a cursor that has one unit of time left
C16_Witness ==
    LET r == proc[1]
    IN  /\ r.pc = "done" /\ r.op = "advance"
        /\ r.out.raised = None
        /\ r.out.res.event = NoDoc
        /\ r.pre # NoState
        /\ store[r.state_id] = r.pre
        /\ expires[r.state_id] = 1
        /\ ExpirationInterval > 1
        /\ events # {}

\* key is what is left of raw once the separators at its two ends are taken off
StrippedOf(key, raw, sep) ==
    /\ \E i, j \in 0..Len(raw) :
          /\ i + Len(key) + j = Len(raw)
          /\ key = SubSeq(raw, i + 1, i + Len(key))
          /\ \A n \in 1..Len(raw) : (n <= i \/ n > i + Len(key)) => raw[n] = sep
    /\ key # << >> => (key[1] # sep /\ key[Len(key)] # sep)

\* C17: add_value stores the value under the stripped key and returns True
\* when the collection has no document of that key, and returns False and
\* leaves the collection as it is when it has one; of the add_value calls that
\* returned True none share a key, however the calls interleave.
C17_AddNeverOverwrites ==
    [][/\ \A p \in Procs :
             /\ (proc[p].pc \in {"idle", "done"} /\ proc'[p].pc = "save") =>
                   StrippedOf(proc'[p].stripped, proc'[p].key, proc'[p].sep)
             /\ (proc[p].pc = "save" /\ proc'[p].pc = "done") =>
                   IF settings[proc[p].stripped] # NoValue
                   THEN proc'[p].res = FALSE /\ settings' = settings
                   ELSE /\ proc'[p].res = TRUE
                        /\ settings' = [settings EXCEPT ![proc[p].stripped] = proc[p].value]
       /\ \A p, q \in Procs :
             ( /\ p # q
               /\ proc'[p].pc = "done" /\ proc'[p].op = "add_value" /\ proc'[p].res
               /\ proc'[q].pc = "done" /\ proc'[q].op = "add_value" /\ proc'[q].res ) =>
                 proc'[p].stripped # proc'[q].stripped]_vars

\* two add_value calls passed one key written in two ways: the first to save
\* returned True and its value is stored, the other is about to save another
C17_Witness ==
    /\ proc[1].pc = "save" /\ proc[1].op = "add_value"
    /\ proc[2].pc = "done" /\ proc[2].op = "add_value" /\ proc[2].res
    /\ proc[1].stripped = proc[2].stripped
    /\ proc[1].key # proc[2].key
    /\ proc[1].value # proc[2].value
    /\ settings[proc[2].stripped] = proc[2].value

\* C18: an advance takes no lock and waits for none: it reads the cache
\* whoever holds the lock of the cursor, and its set_state stores the state it
\* computed from what it read, ranges included, whatever the cache holds by
\* then.
C18_AdvanceUnserialized ==
    [][\A p \in Procs :
          /\ (proc'[p] # proc[p] /\ proc'[p].op = "advance") =>
                /\ lock' = lock
                /\ \A i \in StateIds : lock[i] # p
          /\ (proc[p].pc \in {"idle", "done"} /\ proc'[p] # proc[p]
                /\ proc'[p].op = "advance") =>
                /\ proc'[p].pre = store[proc'[p].state_id]
                /\ store' = store
          /\ (proc[p].pc = "set_state" /\ proc'[p].pc = "done") =>
                /\ store'[proc[p].state_id] = proc[p].out.state
                /\ proc[p].out.state.variant_states = proc[p].pre.variant_states
                /\ proc[p].out.state.variant = proc[p].out.res.event.variant
                /\ proc[p].out.state.iteration = proc[p].out.res.event.iter]_vars

\* lost update: two advances in one direction read the same state of one
\* cursor, returned the same document and saved; the cursor is one step from
\* where it was, and a further sample lies in that direction
C18_Witness ==
    LET a == proc[1]
        b == proc[2]
    IN  /\ a.pc = "done" /\ a.op = "advance" /\ a.saves = 1
        /\ b.pc = "done" /\ b.op = "advance" /\ b.saves = 1
        /\ a.state_id = b.state_id
        /\ a.navigate_earlier = b.navigate_earlier
        /\ a.pre = b.pre
        /\ a.out.res.event = b.out.res.event
        /\ a.out.res.event # NoDoc
        /\ store[a.state_id] = a.out.state
        /\ get_next_debug_image(store[a.state_id], a.task, a.state_id,
                                a.navigate_earlier, events, TRUE).res.event # NoDoc

\* stale overwrite: an advance and a jump with refresh read the same state of
\* one cursor; the jump saved the ranges it resolved, and the advance then
\* saved over them the ranges it had read
C18_StaleRangesSaved ==
    \E p, q \in Procs :
        LET a == proc[p]
            j == proc[q]
        IN  /\ a.pc = "done" /\ a.op = "advance" /\ a.saves = 1
            /\ j.pc = "done" /\ j.op = "jump" /\ j.saves = 1 /\ j.refresh
            /\ j.id = a.state_id
            /\ a.pre = j.pre
            /\ j.out.state.variant_states # a.pre.variant_states
            /\ store[a.state_id] = a.out.state
            /\ store[a.state_id].variant_states = a.pre.variant_states

\* position (i, v) comes before (j, w) in the order of iteration, then name
PositionBefore(i, v, j, w) == i < j \/ (i = j /\ v < w)

\* request r is an advance that returned a document it had not started from a
\* position before it, in its direction
MovesOn(r) ==
    (AdvancedFrom(r) /\ r.out.res.event # NoDoc) =>
        /\ IF r.navigate_earlier
           THEN PositionBefore(r.out.res.event.iter, r.out.res.event.variant,
                               r.pre.iteration, r.pre.variant)
           ELSE PositionBefore(r.pre.iteration, r.pre.variant,
                               r.out.res.event.iter, r.out.res.event.variant)
        /\ r.out.state.iteration = r.out.res.event.iter
        /\ r.out.state.variant = r.out.res.event.variant
        /\ r.out.state.variant_states = r.pre.variant_states

\* C19: an advance forward that returns a document stores a position after
\* the one it started from in the order of iteration, then variant name, and
\* an advance backward one before it; a client that keeps advancing in one
\* direction is returned an empty result after finitely many calls.
C19_WalkEnds ==
    /\ [](\A p \in Procs : MovesOn(proc[p]))
    /\ <>(/\ proc[1].pc = "done" /\ proc[1].op = "advance"
          /\ proc[1].out.raised = None
          /\ proc[1].out.res.event = NoDoc)

\* an advance forward went to a later iteration and a variant of lower name
C19_Witness ==
    LET r == proc[1]
    IN  /\ AdvancedFrom(r)
        /\ ~r.navigate_earlier
        /\ r.out.res.event # NoDoc
        /\ r.out.res.event.iter > r.pre.iteration
        /\ r.out.res.event.variant < r.pre.variant
        /\ store[r.state_id] = r.out.state

\* the stored position of st is a sample inside its variant's window
OnValidSample(st) ==
    \E d \in events : /\ ValidFor(st, d)
                      /\ d.variant = st.variant
                      /\ d.iter = st.iteration

\* request p, whose last call was an advance that returned a document from a
\* valid sample, advances the same cursor in the opposite direction
TurnsBack(p) ==
    /\ AdvancedFrom(proc[p])
    /\ proc[p].out.res.event # NoDoc
    /\ OnValidSample(proc[p].pre)
    /\ proc'[p].pc = "done" /\ proc'[p].op = "advance"
    /\ proc'[p].task = proc[p].task
    /\ proc'[p].state_id = proc[p].state_id
    /\ proc'[p].navigate_earlier # proc[p].navigate_earlier

\* C20: an advance in the opposite direction, made right after an advance that
\* returned a document from a valid sample, starts from the state that advance
\* saved, returns the sample the first advance started from and stores that
\* position again.
C20_BackAndForth ==
    [][\A p \in Procs :
          TurnsBack(p) =>
              /\ proc'[p].pre = proc[p].out.state
              /\ proc'[p].out.raised = None
              /\ proc'[p].out.res.event \in Samples(proc[p].task, proc[p].pre.metric)
              /\ proc'[p].out.res.event.variant = proc[p].pre.variant
              /\ proc'[p].out.res.event.iter = proc[p].pre.iteration
              /\ store'[proc[p].state_id] = proc[p].pre]_vars

\* an advance backward returned to an earlier iteration the sample from which
\* an advance forward leads to where it started
C20_Witness ==
    LET r == proc[1]
        forth == get_next_debug_image(store[r.state_id], r.task, r.state_id, FALSE,
                                      events, TRUE)
    IN  /\ AdvancedFrom(r)
        /\ r.navigate_earlier
        /\ OnValidSample(r.pre)
        /\ r.out.res.event # NoDoc
        /\ r.out.res.event.iter < r.pre.iteration
        /\ r.out.res.event.variant > r.pre.variant
        /\ forth.res.event.variant = r.pre.variant
        /\ forth.res.event.iter = r.pre.iteration

\* C21: a jump that ran its with block and returns no document returns the id
\* of the state and has saved the state: a new state holds the task, the metric
\* and the ranges resolved and no position, a state that was stored keeps its
\* position; the result holds no bounds when the variant is not in the ranges,
\* and the bounds of the variant when it is.
C21_MissStillSaved ==
    \A p \in Procs :
        LET r == proc[p]
            rng == RangesOf(r.out.state, r.variant)
        IN  (Jumped(r) /\ r.out.res.event = NoDoc) =>
                /\ r.out.res.scroll_id = r.id
                /\ r.saves = 1
                /\ store[r.id] = r.out.state
                /\ r.out.state.id = r.id
                /\ r.out.state.task = r.task
                /\ r.out.state.metric = r.metric
                /\ IF r.pre = NoState
                   THEN /\ r.out.state.variant = NoVariant
                        /\ r.out.state.iteration = NoIteration
                        /\ r.out.state.variant_states =
                              _get_variant_iterations(events, r.task, r.metric)
                   ELSE /\ r.out.state.variant = r.pre.variant
                        /\ r.out.state.iteration = r.pre.iteration
                        /\ ~r.refresh => r.out.state = r.pre
                /\ IF rng = {}
                   THEN /\ r.out.res.min_iteration = NoIteration
                        /\ r.out.res.max_iteration = NoIteration
                   ELSE \E vr \in rng : /\ r.out.res.min_iteration = vr.min_iteration
                                        /\ r.out.res.max_iteration = vr.max_iteration

\* a jump on a stored cursor asked for an iteration below the window of a
\* variant of its ranges: bounds and no document, the position kept and saved
C21_Witness ==
    LET r == proc[1]
    IN  /\ Jumped(r)
        /\ r.out.res.event = NoDoc
        /\ r.pre # NoState
        /\ Positioned(r.pre)
        /\ r.pre.variant # r.variant
        /\ RangesOf(r.out.state, r.variant) # {}
        /\ r.out.res.min_iteration > r.iteration
        /\ r.iteration # NoIteration
        /\ store[r.id].variant = r.pre.variant
        /\ r.saves = 1

\* a jump without state id asked for a variant that is not in the ranges
\* resolved: a cursor without position is stored, the result holds its id only
C21_AbsentVariant ==
    LET r == proc[1]
    IN  /\ Jumped(r)
        /\ r.state_id = NoId
        /\ r.out.res = DebugSampleHistoryResult(r.id)
        /\ Len(store[r.id].variant_states) > 0
        /\ RangesOf(store[r.id], r.variant) = {}
        /\ ~Positioned(store[r.id])

\* request r is an advance that returned a document
AdvanceHit(r) ==
    /\ r.pc = "done"
    /\ r.op = "advance"
    /\ r.out.raised = None
    /\ r.out.res.event # NoDoc

\* state st holds none of reached_first, reached_last, warning
NeverSet(st) ==
    /\ st.reached_first = None
    /\ st.reached_last = None
    /\ st.warning = None

\* C22: an advance that returns a document stores the state it loaded with
\* variant and iteration set to those of the document and nothing else changed,
\* and reports the min_iteration and max_iteration of the range of the state
\* that has the document's variant as name; no state, stored or handled by a
\* request, has reached_first, reached_last or warning set.
C22_OnlyPositionMoves ==
    /\ \A p \in Procs :
          LET r == proc[p]
              image == r.out.res.event
          IN  AdvanceHit(r) =>
                /\ r.out.state = [r.pre EXCEPT !.variant = image.variant,
                                               !.iteration = image.iter]
                /\ r.saves = 1
                /\ store[r.state_id] = r.out.state
                /\ r.out.res.scroll_id = r.state_id
                /\ \E vr \in RangesOf(r.pre, image.variant) :
                      /\ r.out.res.min_iteration = vr.min_iteration
                      /\ r.out.res.max_iteration = vr.max_iteration
    /\ \A id \in StateIds : NeverSet(store[id])
    /\ \A p \in Procs : NeverSet(proc[p].pre) /\ NeverSet(proc[p].out.state)

\* an advance moved a cursor to a document of another variant and another
\* iteration, the ranges of the two variants being different
C22_Witness ==
    LET r == proc[1]
        image == r.out.res.event
    IN  /\ AdvanceHit(r)
        /\ Positioned(r.pre)
        /\ image.variant # r.pre.variant
        /\ image.iter # r.pre.iteration
        /\ store[r.state_id].variant = image.variant
        /\ store[r.state_id].iteration = image.iter
        /\ \E a \in RangesOf(r.pre, image.variant), b \in RangesOf(r.pre, r.pre.variant) :
              /\ <<a.min_iteration, a.max_iteration>> # <<b.min_iteration, b.max_iteration>>
              /\ r.out.res.min_iteration = a.min_iteration
              /\ r.out.res.max_iteration = a.max_iteration

\* request p starts in this step while the index holds no document
StartsOnEmpty(p) ==
    /\ events = {}
    /\ proc[p].pc \in {"idle", "done"}
    /\ proc'[p] # proc[p]

\* C23: a request that starts while the index holds no document returns in the
\* same step, whether or not the backend would answer a query, and leaves the
\* cache, its expiry times, the locks and the ids minted as they were: an
\* advance on a cursor of its task returns a result holding the state id passed
\* and nothing else, a jump returns a result without scroll_id, event and bounds
\* and works on no state id, also when a state id was passed and when the lock
\* of that id is held.
C23_EmptyIndexReturns ==
    [][\A p \in Procs :
          StartsOnEmpty(p) =>
              LET r == proc'[p]
              IN  /\ r.pc = "done"
                  /\ r.saves = 0
                  /\ store' = store
                  /\ expires' = expires
                  /\ lock' = lock
                  /\ minted' = minted
                  /\ (r.op = "advance"
                        /\ ~invalid_scroll_id(get_state(store, r.state_id), r.task)) =>
                        /\ r.out.raised = None
                        /\ r.out.res = DebugSampleHistoryResult(r.state_id)
                  /\ r.op = "jump" =>
                        /\ r.out.raised = None
                        /\ r.out.res = DebugSampleHistoryResult(NoId)
                        /\ r.id = NoId]_vars

\* the events were deleted while request 1 held the lock of cursor 1; request 2
\* then jumped on cursor 1 with a backend that fails and returned an empty
\* result, the lock still held and the cursor as it was
C23_Witness ==
    /\ events = {}
    /\ lock[1] = 1
    /\ proc[1].pc \in {"run", "exit", "release"}
    /\ store[1] # NoState
    /\ proc[2].pc = "done"
    /\ proc[2].op = "jump"
    /\ proc[2].state_id = 1
    /\ proc[2].fail = "query"
    /\ proc[2].out.raised = None
    /\ proc[2].out.res = DebugSampleHistoryResult(NoId)
    /\ proc[2].saves = 0

\* the events were deleted; an advance on stored cursor 1, positioned, with a
\* backend that fails returned the state id alone and saved nothing
C23_AdvanceOnDeleted ==
    /\ events = {}
    /\ proc[1].pc = "done"
    /\ proc[1].op = "advance"
    /\ proc[1].state_id = 1
    /\ proc[1].fail = "query"
    /\ proc[1].pre # NoState
    /\ Positioned(proc[1].pre)
    /\ store[1] = proc[1].pre
    /\ proc[1].out.raised = None
    /\ proc[1].out.res = DebugSampleHistoryResult(1)
    /\ proc[1].saves = 0

====
